---- MODULE Spec2Model ----
(***************************************************************************)
(* A model of backup.py: the click command backup_mongo_to_gcs, which      *)
(* probes a MongoDB server, runs mongodump into a local gzip archive and   *)
(* uploads the archive to a Google Cloud Storage bucket.                   *)
(*                                                                         *)
(* One state machine follows the program counter of one process at a time; *)
(* the local disk, the bucket and the wall clock outlive a process, so the *)
(* program can be invoked again (NewRun) on what an earlier run left.      *)
(* Strings are TLA+ strings, byte strings are sequences of byte values and *)
(* decoded text is a sequence of code points.                              *)
(***************************************************************************)
EXTENDS Integers, Sequences, FiniteSets, TLC

VARIABLES
    run,                  \* number of the current invocation of the program
    clock,                \* the UTC wall clock, in seconds after ClockStart
    database_alias,       \* --database-alias of the current run
    pc,                   \* position of the current run in backup_mongo_to_gcs
    utcnow,               \* <<>> or <<c>>: the clock value read at line 39
    timestamp,            \* local variable timestamp ("" while unbound)
    backup_archive_name,  \* local variable backup_archive_name ("" while unbound)
    returncode,           \* <<>> or <<rc>>: process.returncode
    stderr,               \* bytes captured from mongodump's stderr
    archive_written,      \* TRUE when this run's mongodump wrote the archive
    calls,                \* the external calls of this run, in order
    out,                  \* lines echoed on stdout by this run
    err,                  \* messages echoed on stderr by this run
    raised,               \* class of the exception raised in this run ("" if none)
    propagated,           \* TRUE when the exception left backup_mongo_to_gcs
    failed_in,            \* phase in which this run failed ("" if it has not)
    exit_code,            \* <<>> while the process runs, <<status>> once it ended
    disk,                 \* names of the files on the local disk
    bucket,               \* names of the blobs in the bucket
    generated             \* archive names generated by earlier runs

vars == <<run, clock, database_alias, pc, utcnow, timestamp, backup_archive_name,
          returncode, stderr, archive_written, calls, out, err, raised,
          propagated, failed_in, exit_code, disk, bucket, generated>>

local == <<utcnow, timestamp, backup_archive_name, returncode, stderr>>

(***************************************************************************)
(* Bounds of the model.                                                    *)
(***************************************************************************)
MaxRuns == 2
MaxTicks == 2
MaxStderrLen == 2

(***************************************************************************)
(* Inputs.                                                                 *)
(***************************************************************************)
Aliases == {"prod", "dev"}
MongoUri == "mongodb://localhost:27017"
GcsBucketName == "my-bucket"
GcsCredentials == "creds.json"
\* Bytes mongodump may write: 'a', and the two bytes of the UTF-8 form of U+00E9.
StderrBytes == {97, 195, 169}
ReturnCodes == {0, 1}

RECURSIVE SeqsUpTo(_, _)
SeqsUpTo(S, n) ==
    IF n = 0 THEN {<<>>}
    ELSE LET shorter == SeqsUpTo(S, n - 1)
         IN  shorter \cup {Append(s, b) : s \in {t \in shorter : Len(t) = n - 1}, b \in S}

StderrOutputs == SeqsUpTo(StderrBytes, MaxStderrLen)

(***************************************************************************)
(* datetime.datetime.utcnow().strftime("%Y-%m-%dT%H-%M-%S")                *)
(* The clock counts seconds from 2024-01-15T10:29:58 UTC; the model stays  *)
(* within that day.                                                        *)
(***************************************************************************)
ClockStart == 10 * 3600 + 29 * 60 + 58

Digits == <<"0", "1", "2", "3", "4", "5", "6", "7", "8", "9">>

TwoDigits_NoPad(n) ==
    IF n < 10 THEN Digits[n + 1] ELSE Digits[(n \div 10) + 1] \o Digits[(n % 10) + 1]

\* %H, %M, %S: a decimal number zero-padded to two digits
TwoDigits(n) == Digits[(n \div 10) + 1] \o Digits[(n % 10) + 1]

strftime_Minutes(c) ==
    LET s == ClockStart + c
    IN  "2024-01-15T" \o TwoDigits(s \div 3600) \o "-" \o TwoDigits((s % 3600) \div 60)

strftime(c) ==
    LET s == ClockStart + c
    IN  "2024-01-15T" \o TwoDigits(s \div 3600) \o "-" \o TwoDigits((s % 3600) \div 60)
            \o "-" \o TwoDigits(s % 60)

(***************************************************************************)
(* stderr.decode('utf-8'): strict decoding of one- and two-byte forms.     *)
(* Any other byte, and a lead byte without its continuation byte, raises   *)
(* UnicodeDecodeError.                                                     *)
(***************************************************************************)
RECURSIVE decode(_)
decode(b) ==
    IF b = <<>> THEN [ok |-> TRUE, text |-> <<>>]
    ELSE IF b[1] < 128
    THEN LET rest == decode(Tail(b))
         IN  [ok |-> rest.ok, text |-> <<b[1]>> \o rest.text]
    ELSE IF b[1] \in 194..223 /\ Len(b) >= 2 /\ b[2] \in 128..191
    THEN LET rest == decode(SubSeq(b, 3, Len(b)))
         IN  [ok |-> rest.ok, text |-> <<(b[1] - 192) * 64 + (b[2] - 128)>> \o rest.text]
    ELSE [ok |-> FALSE, text |-> <<>>]

(***************************************************************************)
(* The phase of a run, from its position in the handler.                   *)
(***************************************************************************)
Phase(p) ==
    CASE p = "Idle" -> "Idle"
      [] p \in {"MongoClient", "ismaster"} -> "ProbingDB"
      [] p \in {"strftime", "Popen", "communicate", "returncode"} -> "Dumping"
      [] p \in {"storage", "upload_from_filename"} -> "Uploading"
      [] p = "Done" -> "Done"
      [] p = "Failed" -> "Failed"

(***************************************************************************)
(* The except clauses of the handler, in order.                            *)
(***************************************************************************)
\* The texts that open the messages echoed with err=True (lines 59, 74, 76).
ConnectionFailedPrefix == "MongoDB connection failed: "
MongodumpErrorPrefix == "Error during mongodump: "
GenericErrorPrefix == "An error occurred: "

\* pymongo's ConnectionFailure and the classes derived from it
ConnectionFailure == {"ConnectionFailure", "AutoReconnect", "ServerSelectionTimeoutError"}

ExceptClause_ConnectionFailureOnly(e) ==
    IF e \in ConnectionFailure
    THEN [caught |-> TRUE, prefix |-> ConnectionFailedPrefix]
    ELSE [caught |-> FALSE, prefix |-> ""]

ExceptClause_ExceptionFirst(e) ==
    [caught |-> TRUE, prefix |-> GenericErrorPrefix]

ExceptClause(e) ==
    IF e \in ConnectionFailure
    THEN [caught |-> TRUE, prefix |-> ConnectionFailedPrefix]
    ELSE [caught |-> TRUE, prefix |-> GenericErrorPrefix]

\* An exception of class e is raised at the current position inside the try block.
Raise(e) ==
    LET h == ExceptClause(e)
    IN  /\ raised' = e
        /\ failed_in' = Phase(pc)
        /\ propagated' = ~h.caught
        /\ err' = IF h.caught
                  THEN Append(err, [prefix |-> h.prefix, text |-> <<>>, exc |-> e])
                  ELSE err
        /\ pc' = "Failed"

NoRaise == UNCHANGED <<raised, failed_in, propagated, err>>

Call(fn, arg) == [fn |-> fn, arg |-> arg]

(***************************************************************************)
(* State after the interpreter has started and click has parsed the        *)
(* command line.                                                           *)
(***************************************************************************)
Init ==
    /\ run = 1
    /\ clock = 0
    /\ database_alias \in Aliases
    /\ pc = "Idle"
    /\ utcnow = <<>>
    /\ timestamp = ""
    /\ backup_archive_name = ""
    /\ returncode = <<>>
    /\ stderr = <<>>
    /\ archive_written = FALSE
    /\ calls = <<>>
    /\ out = <<>>
    /\ err = <<>>
    /\ raised = ""
    /\ propagated = FALSE
    /\ failed_in = ""
    /\ exit_code = <<>>
    /\ disk = {}
    /\ bucket = {}
    /\ generated = {}

\* The wall clock advances by a second, at any time.
Tick ==
    /\ clock < MaxTicks
    /\ clock' = clock + 1
    /\ UNCHANGED <<run, database_alias, pc, local, archive_written, calls, out, err,
                   raised, propagated, failed_in, exit_code, disk, bucket,
                   generated>>

\* Lines 26-32: the handler is entered.
Invoke ==
    /\ pc = "Idle"
    /\ out' = Append(out, "Connecting to MongoDB...")
    /\ pc' = "MongoClient"
    /\ UNCHANGED <<run, clock, database_alias, local, archive_written, calls, err,
                   raised, propagated, failed_in, exit_code, disk, bucket,
                   generated>>

\* Line 33: client = MongoClient(mongo_uri)
Connect ==
    /\ pc = "MongoClient"
    /\ calls' = Append(calls, Call("MongoClient", MongoUri))
    /\ \/ pc' = "ismaster" /\ NoRaise
       \/ Raise("ConfigurationError")
    /\ UNCHANGED <<run, clock, database_alias, local, archive_written, out,
                   exit_code, disk, bucket, generated>>

\* Lines 35-36: client.admin.command("ismaster")
IsMaster_Continue ==
    /\ pc = "ismaster"
    /\ calls' = Append(calls, Call("command", "ismaster"))
    /\ \/ /\ out' = Append(out, "Successfully connected to MongoDB.")
          /\ pc' = "strftime"
          /\ NoRaise
       \/ \E e \in {"ServerSelectionTimeoutError", "OperationFailure"} :
             /\ raised' = e
             /\ failed_in' = Phase(pc)
             /\ propagated' = FALSE
             /\ err' = Append(err, [prefix |-> ExceptClause(e).prefix,
                                    text |-> <<>>, exc |-> e])
             /\ pc' = "strftime"
             /\ out' = out
    /\ UNCHANGED <<run, clock, database_alias, local, archive_written,
                   exit_code, disk, bucket, generated>>

IsMaster ==
    /\ pc = "ismaster"
    /\ calls' = Append(calls, Call("command", "ismaster"))
    /\ \/ /\ out' = Append(out, "Successfully connected to MongoDB.")
          /\ pc' = "strftime"
          /\ NoRaise
       \/ \E e \in {"ServerSelectionTimeoutError", "OperationFailure"} :
             Raise(e) /\ out' = out
    /\ UNCHANGED <<run, clock, database_alias, local, archive_written,
                   exit_code, disk, bucket, generated>>

\* Lines 39-43: the archive name is built from the alias and the clock.
MakeArchiveName ==
    /\ pc = "strftime"
    /\ LET ts == strftime(clock)
           backup_name == "mongo_backup_" \o database_alias \o "_" \o ts
           name == backup_name \o ".gz"
       IN  /\ utcnow' = <<clock>>
           /\ timestamp' = ts
           /\ backup_archive_name' = name
           /\ calls' = Append(calls, Call("utcnow", ts))
           /\ out' = Append(out, "Creating MongoDB backup: " \o name \o "...")
    /\ pc' = "Popen"
    /\ UNCHANGED <<run, clock, database_alias, returncode, stderr, archive_written,
                   err, raised, propagated, failed_in, exit_code, disk, bucket,
                   generated>>

\* Lines 46-55: subprocess.Popen(mongodump_command, ...)
Popen ==
    /\ pc = "Popen"
    /\ calls' = Append(calls, Call("Popen", "--archive=" \o backup_archive_name))
    /\ \/ pc' = "communicate" /\ NoRaise
       \/ Raise("FileNotFoundError")
    /\ UNCHANGED <<run, clock, database_alias, local, archive_written, out,
                   exit_code, disk, bucket, generated>>

\* Line 56: stdout, stderr = process.communicate()
\* mongodump runs to its end: it may or may not have written the archive,
\* whatever its exit status.
Communicate ==
    /\ pc = "communicate"
    /\ \E rc \in ReturnCodes, bytes \in StderrOutputs, wrote \in BOOLEAN :
          /\ returncode' = <<rc>>
          /\ stderr' = bytes
          /\ archive_written' = wrote
          /\ disk' = IF wrote THEN disk \cup {backup_archive_name} ELSE disk
    /\ pc' = "returncode"
    /\ UNCHANGED <<run, clock, database_alias, utcnow, timestamp, backup_archive_name,
                   calls, out, err, raised, propagated, failed_in, exit_code, bucket,
                   generated>>

\* Lines 58-62: if process.returncode != 0: echo the error and return
CheckReturncode ==
    /\ pc = "returncode"
    /\ IF returncode # <<0>>
       THEN LET d == decode(stderr)
            IN  /\ IF d.ok
                   THEN /\ err' = Append(err, [prefix |-> MongodumpErrorPrefix,
                                               text |-> d.text, exc |-> ""])
                        /\ failed_in' = Phase(pc)
                        /\ pc' = "Failed"
                        /\ UNCHANGED <<raised, propagated>>
                   ELSE Raise("UnicodeDecodeError")
                /\ out' = out
       ELSE /\ out' = Append(out, "Backup created successfully.")
            /\ pc' = "storage"
            /\ NoRaise
    /\ UNCHANGED <<run, clock, database_alias, local, archive_written, calls,
                   exit_code, disk, bucket, generated>>

\* Lines 65-68: the storage client, the bucket and the blob
UploadAuth_BackupName ==
    /\ pc = "storage"
    /\ out' = Append(out, "Uploading backup to GCS bucket: " \o GcsBucketName \o "...")
    /\ \/ /\ calls' = calls \o <<Call("from_service_account_json", GcsCredentials),
                                 Call("bucket", GcsBucketName),
                                 Call("blob", "mongo_backup_" \o database_alias
                                                  \o "_" \o timestamp)>>
          /\ pc' = "upload_from_filename"
          /\ NoRaise
       \/ /\ calls' = Append(calls, Call("from_service_account_json", GcsCredentials))
          /\ Raise("ValueError")
    /\ UNCHANGED <<run, clock, database_alias, local, archive_written,
                   exit_code, disk, bucket, generated>>

UploadAuth ==
    /\ pc = "storage"
    /\ out' = Append(out, "Uploading backup to GCS bucket: " \o GcsBucketName \o "...")
    /\ \/ /\ calls' = calls \o <<Call("from_service_account_json", GcsCredentials),
                                 Call("bucket", GcsBucketName),
                                 Call("blob", backup_archive_name)>>
          /\ pc' = "upload_from_filename"
          /\ NoRaise
       \/ /\ calls' = Append(calls, Call("from_service_account_json", GcsCredentials))
          /\ Raise("ValueError")
    /\ UNCHANGED <<run, clock, database_alias, local, archive_written,
                   exit_code, disk, bucket, generated>>

\* The blob the upload writes: the name given to bucket.blob at line 68.
BlobName == calls[Len(calls)].arg

\* Lines 70-71: blob.upload_from_filename(backup_archive_name)
Upload_Cleanup ==
    /\ pc = "upload_from_filename"
    /\ calls' = Append(calls, Call("upload_from_filename", backup_archive_name))
    /\ IF backup_archive_name \notin disk
       THEN Raise("FileNotFoundError") /\ UNCHANGED <<out, bucket, disk>>
       ELSE \/ /\ bucket' = bucket \cup {BlobName}
               /\ out' = Append(out, "Backup " \o backup_archive_name \o " uploaded to "
                                         \o GcsBucketName \o ".")
               /\ pc' = "Done"
               /\ disk' = disk
               /\ NoRaise
            \/ /\ Raise("NotFound")
               /\ disk' = disk \ {backup_archive_name}
               /\ UNCHANGED <<out, bucket>>
    /\ UNCHANGED <<run, clock, database_alias, local, archive_written,
                   exit_code, generated>>

Upload_Retry ==
    /\ pc = "upload_from_filename"
    /\ calls' = Append(calls, Call("upload_from_filename", backup_archive_name))
    /\ IF backup_archive_name \notin disk
       THEN Raise("FileNotFoundError") /\ UNCHANGED <<out, bucket>>
       ELSE \/ /\ bucket' = bucket \cup {BlobName}
               /\ out' = Append(out, "Backup " \o backup_archive_name \o " uploaded to "
                                         \o GcsBucketName \o ".")
               /\ pc' = "Done"
               /\ NoRaise
            \/ /\ Len(calls) < 8
               /\ pc' = "upload_from_filename"
               /\ NoRaise
               /\ UNCHANGED <<out, bucket>>
    /\ UNCHANGED <<run, clock, database_alias, local, archive_written,
                   exit_code, disk, generated>>

Upload ==
    /\ pc = "upload_from_filename"
    /\ calls' = Append(calls, Call("upload_from_filename", backup_archive_name))
    /\ IF backup_archive_name \notin disk
       THEN Raise("FileNotFoundError") /\ UNCHANGED <<out, bucket>>
       ELSE \/ /\ bucket' = bucket \cup {BlobName}
               /\ out' = Append(out, "Backup " \o backup_archive_name \o " uploaded to "
                                         \o GcsBucketName \o ".")
               /\ pc' = "Done"
               /\ NoRaise
            \/ /\ Raise("NotFound")
               /\ UNCHANGED <<out, bucket>>
    /\ UNCHANGED <<run, clock, database_alias, local, archive_written,
                   exit_code, disk, generated>>

\* Line 85: click's standalone mode ends the process once the handler returns;
\* an exception that left the handler ends it with a traceback and status 1.
Exit ==
    /\ pc \in {"Done", "Failed"}
    /\ exit_code = <<>>
    /\ exit_code' = IF propagated THEN <<1>> ELSE <<0>>
    /\ UNCHANGED <<run, clock, database_alias, pc, local, archive_written, calls, out,
                   err, raised, propagated, failed_in, disk, bucket, generated>>

\* What the current run leaves for the history of the later runs.
GeneratedNow ==
    IF utcnow = <<>> THEN {}
    ELSE {[alias |-> database_alias, stamp |-> utcnow[1], name |-> backup_archive_name]}

\* Lines 79-85: the program is started again, on the same disk and bucket.
\* Loading .env changes the environment only; no option reads it, so it leaves
\* the state of the run as it is.
NewRun ==
    /\ exit_code # <<>>
    /\ run < MaxRuns
    /\ run' = run + 1
    /\ database_alias' \in Aliases
    /\ generated' = generated \cup GeneratedNow
    /\ pc' = "Idle"
    /\ utcnow' = <<>>
    /\ timestamp' = ""
    /\ backup_archive_name' = ""
    /\ returncode' = <<>>
    /\ stderr' = <<>>
    /\ archive_written' = FALSE
    /\ calls' = <<>>
    /\ out' = <<>>
    /\ err' = <<>>
    /\ raised' = ""
    /\ propagated' = FALSE
    /\ failed_in' = ""
    /\ exit_code' = <<>>
    /\ UNCHANGED <<clock, disk, bucket>>

Next ==
    \/ Tick
    \/ Invoke
    \/ Connect
    \/ IsMaster
    \/ MakeArchiveName
    \/ Popen
    \/ Communicate
    \/ CheckReturncode
    \/ UploadAuth
    \/ Upload
    \/ Exit
    \/ NewRun

Spec == Init /\ [][Next]_vars

(***************************************************************************)
(* Properties.                                                             *)
(***************************************************************************)
\* Number of calls of fn made so far by the current run.
Count(fn) == Cardinality({i \in 1..Len(calls) : calls[i].fn = fn})

Ended == pc \in {"Done", "Failed"}

\* UTF-8 encoding of a text of code points below U+0800: the bytes a text stands for.
RECURSIVE encode(_)
encode(t) ==
    IF t = <<>> THEN <<>>
    ELSE IF t[1] < 128 THEN <<t[1]>> \o encode(Tail(t))
    ELSE <<192 + (t[1] \div 64), 128 + (t[1] % 64)>> \o encode(Tail(t))

\* The timestamps of the seconds from 2024-01-15T10:29:58 UTC on, written out.
ExpectedTimestamp ==
    <<"2024-01-15T10-29-58", "2024-01-15T10-29-59", "2024-01-15T10-30-00",
      "2024-01-15T10-30-01", "2024-01-15T10-30-02", "2024-01-15T10-30-03">>

\* C1: once the probe (MongoClient or the ismaster command) has failed, the run
\* has started no mongodump, has created no archive and has made no call of the
\* upload step, and it never does.
C1_ProbeFailureShortCircuits ==
    failed_in = "ProbingDB" =>
        /\ Count("Popen") = 0
        /\ ~archive_written
        /\ backup_archive_name = ""
        /\ Count("from_service_account_json") = 0
        /\ Count("blob") = 0
        /\ Count("upload_from_filename") = 0

\* C1 witness: a run whose ismaster command failed has ended.
C1_Witness ==
    /\ failed_in = "ProbingDB"
    /\ raised = "ServerSelectionTimeoutError"
    /\ exit_code # <<>>

\* C2: a run whose mongodump exited non-zero makes no upload call, and its one
\* message on the error stream is 'Error during mongodump: ' followed by the
\* text of the captured stderr bytes, unchanged.
C2_DumpFailureMessage ==
    (Ended /\ returncode # <<>> /\ returncode # <<0>>) =>
        /\ Count("from_service_account_json") = 0
        /\ Count("upload_from_filename") = 0
        /\ Len(err) = 1
        /\ err[1].prefix = MongodumpErrorPrefix
        /\ encode(err[1].text) = stderr

\* C3: a run whose mongodump exited with status 0 enters the upload step exactly
\* once, and the blob name and the uploaded local path are the name that was
\* given to mongodump as --archive.
C3_UploadGetsArchiveName ==
    /\ Count("from_service_account_json") <= 1
    /\ Count("blob") <= 1
    /\ Count("upload_from_filename") <= 1
    /\ (Ended /\ returncode = <<0>>) => Count("from_service_account_json") = 1
    /\ \A i \in 1..Len(calls) :
          calls[i].fn \in {"blob", "upload_from_filename"} =>
              \E j \in 1..(i - 1) :
                  /\ calls[j].fn = "Popen"
                  /\ calls[j].arg = "--archive=" \o calls[i].arg

\* C3 witness: a run has uploaded its archive.
C3_Witness ==
    /\ pc = "Done"
    /\ returncode = <<0>>
    /\ Count("upload_from_filename") = 1

\* The moves between phases that a run may make.
PhaseSteps ==
    {<<"Idle", "ProbingDB">>, <<"ProbingDB", "Dumping">>, <<"Dumping", "Uploading">>,
     <<"Uploading", "Done">>, <<"ProbingDB", "Failed">>, <<"Dumping", "Failed">>,
     <<"Uploading", "Failed">>}

\* C4: within a run the phase moves only along Idle, ProbingDB, Dumping,
\* Uploading, Done, or from ProbingDB, Dumping or Uploading to Failed; Done and
\* Failed are left by no step, and the probe, the dump and the upload are each
\* called at most once.
C4_LinearPhases ==
    /\ [][run' = run =>
             \/ Phase(pc') = Phase(pc)
             \/ <<Phase(pc), Phase(pc')>> \in PhaseSteps]_vars
    /\ [](/\ Count("MongoClient") <= 1
          /\ Count("command") <= 1
          /\ Count("Popen") <= 1
          /\ Count("upload_from_filename") <= 1)

\* C4 witness: a run has gone through every phase to Done and the process ended.
C4_Witness ==
    /\ pc = "Done"
    /\ exit_code = <<0>>
    /\ Count("MongoClient") = 1
    /\ Count("Popen") = 1

\* C5: when upload_from_filename is about to be called, the archive of the run
\* is on the local disk.
C5_ArchiveOnDiskAtUpload ==
    pc = "upload_from_filename" => backup_archive_name \in disk

\* C6: every failure is handled in the handler: the run is Failed with exactly
\* one message on the error stream, no exception leaves the handler, and the
\* process ends with status 0, as a successful run does.
C6_FailuresHandled ==
    /\ ~propagated
    /\ raised # "" => pc = "Failed"
    /\ (returncode \notin {<<>>, <<0>>} /\ pc # "returncode") => pc = "Failed"
    /\ pc = "Failed" => (failed_in # "" /\ Len(err) = 1)
    /\ pc # "Failed" => (failed_in = "" /\ err = <<>>)
    /\ exit_code # <<>> => exit_code = <<0>>

\* C6 witness: a run whose upload raised has ended with status 0.
C6_Witness ==
    /\ pc = "Failed"
    /\ failed_in = "Uploading"
    /\ raised = "NotFound"
    /\ exit_code = <<0>>

\* C7 as stated: the archive name of a run differs from the archive name of
\* every earlier run.
C7_ArchiveNameUnique ==
    \A g \in generated : g.name # backup_archive_name

\* C7 as amended: two runs generate the same archive name exactly when they have
\* the same alias and read the same UTC second.
C7_NameCollidesOnlyOnAliasAndSecond ==
    /\ \A g \in generated :
          utcnow # <<>> =>
              (g.name = backup_archive_name
                  <=> (g.alias = database_alias /\ g.stamp = utcnow[1]))
    /\ \A g, h \in generated :
          g.name = h.name <=> (g.alias = h.alias /\ g.stamp = h.stamp)

\* C7 witness: a run with the alias of an earlier run, started in a later
\* second, has generated another name.
C7_Witness ==
    /\ utcnow # <<>>
    /\ \E g \in generated :
          /\ g.alias = database_alias
          /\ g.stamp # utcnow[1]
          /\ g.name # backup_archive_name

\* C8: the archive written by the run's mongodump stays on the local disk in
\* every later state of the run.
C8_ArchiveNeverDeleted ==
    archive_written => backup_archive_name \in disk

\* C8 witness: the upload of a written archive failed and the run has ended.
C8_Witness ==
    /\ archive_written
    /\ failed_in = "Uploading"
    /\ exit_code # <<>>
    /\ backup_archive_name \in disk

\* C9 as stated: the message of a failed run tells the phase that failed: the
\* connectivity message for the probe, the mongodump message for the dump, and
\* a message that is neither for the upload.
C9_MessageTellsPhase ==
    (failed_in # "" /\ err # <<>>) =>
        /\ failed_in = "ProbingDB" => err[1].prefix = ConnectionFailedPrefix
        /\ failed_in = "Dumping" => err[1].prefix = MongodumpErrorPrefix
        /\ failed_in = "Uploading" =>
              err[1].prefix \notin {ConnectionFailedPrefix, MongodumpErrorPrefix}

\* C9 as amended: the connectivity message is printed exactly for a
\* ConnectionFailure, which only the probe raises; the mongodump message exactly
\* for a non-zero exit of mongodump whose stderr decodes; every other exception,
\* of the probe, the dump or the upload, gets the same generic message.
C9_MessageByExceptionClass ==
    (failed_in # "" /\ err # <<>>) =>
        /\ err[1].prefix \in
              {ConnectionFailedPrefix, MongodumpErrorPrefix, GenericErrorPrefix}
        /\ err[1].prefix = ConnectionFailedPrefix <=> raised \in ConnectionFailure
        /\ err[1].prefix = ConnectionFailedPrefix => failed_in = "ProbingDB"
        /\ err[1].prefix = MongodumpErrorPrefix <=> raised = ""
        /\ err[1].prefix = MongodumpErrorPrefix =>
              /\ failed_in = "Dumping"
              /\ returncode \notin {<<>>, <<0>>}
              /\ decode(stderr).ok
        /\ err[1].prefix = GenericErrorPrefix <=>
              (raised # "" /\ raised \notin ConnectionFailure)

\* C9 witness: a probe failure reported with the generic message.
C9_Witness ==
    /\ failed_in = "ProbingDB"
    /\ err # <<>>
    /\ err[1].prefix = GenericErrorPrefix

\* C10 as stated: every run that has ended produced exactly one archive name,
\* mongo_backup_<alias>_<timestamp>.gz.
C10_ExactlyOneName ==
    exit_code # <<>> =>
        /\ Count("utcnow") = 1
        /\ backup_archive_name =
              "mongo_backup_" \o database_alias \o "_"
                  \o ExpectedTimestamp[utcnow[1] + 1] \o ".gz"

\* C10 as amended: a run produces at most one archive name; it produces none
\* when the probe fails and exactly one otherwise, and the name is
\* mongo_backup_<alias>_<timestamp>.gz with the UTC second read on line 39.
C10_OneNameOnceProbed ==
    /\ Count("utcnow") <= 1
    /\ failed_in = "ProbingDB" => (Count("utcnow") = 0 /\ backup_archive_name = "")
    /\ (exit_code # <<>> /\ failed_in # "ProbingDB") => Count("utcnow") = 1
    /\ Count("utcnow") = 1 =>
          /\ utcnow # <<>>
          /\ backup_archive_name =
                "mongo_backup_" \o database_alias \o "_"
                    \o ExpectedTimestamp[utcnow[1] + 1] \o ".gz"
          /\ timestamp = ExpectedTimestamp[utcnow[1] + 1]

\* C10 witness: a run that read the clock at 10:30:00 has ended.
C10_Witness ==
    /\ exit_code # <<>>
    /\ utcnow = <<2>>
    /\ backup_archive_name \in
          {"mongo_backup_prod_2024-01-15T10-30-00.gz",
           "mongo_backup_dev_2024-01-15T10-30-00.gz"}

====
